---- MODULE Spec2Model ----
(***************************************************************************)
(* Options analytics of tradelens-py: the Tradier option-chain extractors  *)
(* (modules/providers/tradier.py) and the max pain calculator              *)
(* (modules/max_pain.py), as a state machine over the provider's chain.    *)
(*                                                                         *)
(* Python values are modelled as follows.                                  *)
(*   - a dict whose keys are fixed strings is a record; the empty dict {}  *)
(*     is the empty function <<>> carried with type "dict";                *)
(*   - a dict keyed by strike (call_data, put_data) is a sequence of       *)
(*     <<key, value>> pairs in insertion order, which is the order         *)
(*     dict.items() iterates in;                                           *)
(*   - a list is a sequence;                                               *)
(*   - the float total_put_oi / total_call_oi is the exact rational, kept  *)
(*     in lowest terms as [num, den];                                      *)
(*   - the outcome of a call is [status, type, value]: status "return"     *)
(*     with the returned value and its Python type, or status "raise"      *)
(*     with the exception class as type.                                   *)
(***************************************************************************)
EXTENDS Integers, Sequences, FiniteSets, TLC

\* Longest chain the provider lists in the model.
MaxChainLen == 4

\* The x100 shares-per-contract factor of the cash formula.
ContractMultiplier == 100

VARIABLES
    feed,   \* the contracts the provider may list for the requested expiration
    chain,  \* response_to_json['options']['option']: the chain, in provider order
    self,   \* the fields of the MaxPain object and of the Tradier object it holds
    ret     \* the call in flight: which method ran and what came out of it

optionVars == <<feed, chain, self, ret>>

VARIABLES
    users,    \* the user table, in id order
    session,  \* the id of the user the client is logged in as, 0 for anonymous
    resp      \* the last request the application answered, and its answer

VARIABLES
    posts,      \* the post table, in id order
    followers,  \* the followers association table: <<follower_id, following_id>> rows
    pending     \* the maximum_pain request being served, between its two fetches

webVars == <<users, session, resp, posts, followers, pending>>

vars == <<feed, chain, self, ret, users, session, resp, posts, followers, pending>>

-----------------------------------------------------------------------------
(* Contracts as the provider sends them *)

OptionTypes == {"call", "put"}

contract(t, k, oi) ==
    [option_type |-> t, strike |-> k, open_interest |-> oi, volume |-> oi,
     greeks |-> [mid_iv |-> k, delta |-> 1, gamma |-> 1, theta |-> 1,
                 vega |-> 1, rho |-> 1],
     last |-> 1, bid |-> 1, ask |-> 1]

\* A small market: two strikes, open interest 0 or 1 on either side.
GeneralFeed == {contract(t, k, oi) : t \in OptionTypes, k \in {100, 105}, oi \in {0, 1}}

\* The contracts of the worked scenarios: the max pain example and the
\* put/call ratio example.
ScenarioFeed ==
    {contract("call", 100, 10), contract("call", 105, 5),
     contract("put", 100, 8), contract("put", 105, 12),
     contract("call", 100, 150), contract("put", 100, 300)}

\* A contract record that came without one of its keys.
without(c, key) == [k \in DOMAIN c \ {key} |-> c[k]]

\* A contract with the given mid_iv in its greeks.
contract_iv(t, k, iv) == [contract(t, k, 1) EXCEPT !.greeks.mid_iv = iv]

\* Python's None, as the value of a key that holds a dict otherwise.
None == [none |-> TRUE]

\* Incomplete provider data: three whole contracts (the call at 100 listed
\* with two implied volatilities), one without option_type, one without
\* strike, one without greeks, one whose greeks are null.
PartialFeed ==
    {contract_iv("call", 100, 20), contract_iv("call", 100, 25),
     contract_iv("put", 100, 30),
     without(contract("call", 100, 1), "option_type"),
     without(contract("put", 105, 1), "strike"),
     without(contract("call", 105, 1), "greeks"),
     [contract("put", 105, 1) EXCEPT !.greeks = None]}

Symbols == {"SPY"}
ExpirationDates == {"2024-06-21"}

-----------------------------------------------------------------------------
(* Python helpers *)

Return(type, value) == [status |-> "return", type |-> type, value |-> value]
Raise(exc) == [status |-> "raise", type |-> exc, value |-> <<>>]

HasKey(d, k) == k \in DOMAIN d

\* Faulty variant of DictSet: an existing key keeps its first value.
DictSet_keep_first(d, k, v) ==
    IF \E i \in 1..Len(d) : d[i][1] = k THEN d ELSE Append(d, <<k, v>>)

\* Faulty variant of DictSet: an overwritten key moves to the end.
DictSet_move_to_end(d, k, v) ==
    Append(SelectSeq(d, LAMBDA e : e[1] # k), <<k, v>>)

\* d[k] = v on an insertion-ordered dict: an existing key keeps its place
\* and takes the new value, a new key goes to the end.
DictSet(d, k, v) ==
    IF \E i \in 1..Len(d) : d[i][1] = k
    THEN [i \in 1..Len(d) |-> IF d[i][1] = k THEN <<k, v>> ELSE d[i]]
    ELSE Append(d, <<k, v>>)

RECURSIVE GCD(_, _)
GCD(a, b) == IF b = 0 THEN a ELSE GCD(b, a % b)

\* Faulty variant of TrueDiv: floor division, a // b.
TrueDiv_floor(a, b) == [num |-> a \div b, den |-> 1]

\* a / b for ints a >= 0, b > 0: the quotient as a fraction in lowest terms.
TrueDiv(a, b) == [num |-> a \div GCD(a, b), den |-> b \div GCD(a, b)]

RECURSIVE SortedSeq(_)
\* sorted(set(...)): the members of S in ascending order.
SortedSeq(S) ==
    IF S = {} THEN <<>>
    ELSE LET m == CHOOSE x \in S : \A y \in S : x <= y
         IN <<m>> \o SortedSeq(S \ {m})

-----------------------------------------------------------------------------
(* modules/providers/tradier.py *)

\* get_options_chain: the chain of the response, with the request echoed.
get_options_chain(options_chain, symbol, expiration_date) ==
    [description |-> "full option chain for a given expiration date",
     ticker |-> symbol, expiration_date |-> expiration_date,
     data |-> options_chain]

\* The right-hand side of call_data[strike['strike']] = ... in each extractor:
\* strike['open_interest'], strike['volume'], strike['greeks'].get('mid_iv'),
\* {'last': strike['last'], 'bid': strike['bid'], 'ask': strike['ask']}.
field_value(strike, field) ==
    CASE field = "open_interest" ->
           IF HasKey(strike, "open_interest")
           THEN Return("int", strike.open_interest) ELSE Raise("KeyError")
      [] field = "volume" ->
           IF HasKey(strike, "volume")
           THEN Return("int", strike.volume) ELSE Raise("KeyError")
      [] field = "iv" ->
           IF ~HasKey(strike, "greeks") THEN Raise("KeyError")
           ELSE IF strike.greeks = None THEN Raise("AttributeError")
           ELSE IF HasKey(strike.greeks, "mid_iv")
                THEN Return("float", strike.greeks.mid_iv)
                ELSE Return("NoneType", None)
      [] field = "last_bid_ask" ->
           IF HasKey(strike, "last") /\ HasKey(strike, "bid") /\ HasKey(strike, "ask")
           THEN Return("dict", [last |-> strike.last, bid |-> strike.bid,
                                ask |-> strike.ask])
           ELSE Raise("KeyError")

\* Faulty variant of collect_step: strike.get('option_type'), so a contract
\* without option_type is skipped instead of raising.
collect_step_lenient(acc, strike, field) ==
    IF acc.status = "raise" THEN acc
    ELSE IF ~HasKey(strike, "option_type") THEN acc
    ELSE IF strike.option_type \notin OptionTypes THEN acc
    ELSE LET v == field_value(strike, field)
         IN IF v.status = "raise" THEN v
            ELSE IF ~HasKey(strike, "strike") THEN Raise("KeyError")
            ELSE IF strike.option_type = "call"
                 THEN Return("dicts", [call_data |-> DictSet(acc.value.call_data,
                                                            strike.strike, v.value),
                                       put_data |-> acc.value.put_data])
                 ELSE Return("dicts", [call_data |-> acc.value.call_data,
                                       put_data |-> DictSet(acc.value.put_data,
                                                            strike.strike, v.value)])

\* One pass of "for strike in options_chain" over a contract: the call goes
\* to call_data, the put to put_data, any other option_type is skipped, and
\* a missing key raises and ends the loop.
collect_step(acc, strike, field) ==
    IF acc.status = "raise" THEN acc
    ELSE IF ~HasKey(strike, "option_type") THEN Raise("KeyError")
    ELSE IF strike.option_type \notin OptionTypes THEN acc
    ELSE LET v == field_value(strike, field)
         IN IF v.status = "raise" THEN v
            ELSE IF ~HasKey(strike, "strike") THEN Raise("KeyError")
            ELSE IF strike.option_type = "call"
                 THEN Return("dicts", [call_data |-> DictSet(acc.value.call_data,
                                                            strike.strike, v.value),
                                       put_data |-> acc.value.put_data])
                 ELSE Return("dicts", [call_data |-> acc.value.call_data,
                                       put_data |-> DictSet(acc.value.put_data,
                                                            strike.strike, v.value)])

\* The whole loop, from empty call_data and put_data.
collect(options_chain, field) ==
    LET loop[i \in 0..Len(options_chain)] ==
            IF i = 0 THEN Return("dicts", [call_data |-> <<>>, put_data |-> <<>>])
            ELSE collect_step(loop[i - 1], options_chain[i], field)
    IN loop[Len(options_chain)]

\* [{'strike': strike, <field>: value} for strike, value in data.items()]
items_list(data, field) ==
    [i \in 1..Len(data) |->
        CASE field = "open_interest" ->
               [strike |-> data[i][1], open_interest |-> data[i][2]]
          [] field = "volume" -> [strike |-> data[i][1], volume |-> data[i][2]]
          [] field = "iv" -> [strike |-> data[i][1], iv |-> data[i][2]]
          [] field = "last_bid_ask" ->
               [strike |-> data[i][1], last_bid_ask |-> data[i][2]]]

\* Faulty variant of zip_total: the whole list is summed, not the zipped part.
zip_total_full(list, n) ==
    LET total[i \in 0..Len(list)] ==
            IF i = 0 THEN 0 ELSE total[i - 1] + list[i].open_interest
    IN total[Len(list)]

\* for call, put in zip(call_list, put_list): the totals over the pairs.
RECURSIVE zip_total(_, _)
zip_total(list, n) ==
    IF n = 0 THEN 0 ELSE zip_total(list, n - 1) + list[n].open_interest

Min2(a, b) == IF a <= b THEN a ELSE b

get_open_interest(options_chain, symbol, expiration_date) ==
    LET data == collect(get_options_chain(options_chain, symbol, expiration_date).data,
                        "open_interest")
    IN IF data.status = "raise" THEN data
       ELSE LET call_list == items_list(data.value.call_data, "open_interest")
                put_list == items_list(data.value.put_data, "open_interest")
                n == Min2(Len(call_list), Len(put_list))
                total_call_oi == zip_total(call_list, n)
                total_put_oi == zip_total(put_list, n)
            IN IF total_call_oi = 0 THEN Raise("ZeroDivisionError")
               ELSE Return("dict",
                      [description |-> "open_interest",
                       root_symbol |-> symbol,
                       expiration_date |-> expiration_date,
                       data |-> [Calls |-> call_list,
                                 Puts |-> put_list,
                                 total_call_oi |-> total_call_oi,
                                 total_put_oi |-> total_put_oi,
                                 put_call_ratio |-> TrueDiv(total_put_oi, total_call_oi)]])

\* The shared shape of _get_volume and _get_last_bid_ask: the two lists
\* under 'data', no totals.
calls_puts(options_chain, symbol, expiration_date, field, description) ==
    LET data == collect(get_options_chain(options_chain, symbol, expiration_date).data,
                        field)
    IN IF data.status = "raise" THEN data
       ELSE Return("dict",
              [description |-> description,
               root_symbol |-> symbol,
               expiration_date |-> expiration_date,
               data |-> [Calls |-> items_list(data.value.call_data, field),
                         Puts |-> items_list(data.value.put_data, field)]])

_get_volume(options_chain, symbol, expiration_date) ==
    calls_puts(options_chain, symbol, expiration_date, "volume", "volume")

\* Faulty variant of _get_implied_volatility: no try/except around the body.
_get_implied_volatility_no_except(options_chain, symbol, expiration_date) ==
    calls_puts(options_chain, symbol, expiration_date, "iv", "implied volatility")

\* try: ... except: return {}
_get_implied_volatility(options_chain, symbol, expiration_date) ==
    LET r == calls_puts(options_chain, symbol, expiration_date, "iv",
                        "implied volatility")
    IN IF r.status = "raise" THEN Return("dict", <<>>) ELSE r

_get_last_bid_ask(options_chain, symbol, expiration_date) ==
    calls_puts(options_chain, symbol, expiration_date, "last_bid_ask",
               "last, bid, ask prices")

\* Faulty variant of greeks_step: the branches append to the wrong lists.
greeks_step_swapped(acc, strike) ==
    IF acc.status = "raise" THEN acc
    ELSE IF ~HasKey(strike, "option_type") THEN Raise("KeyError")
    ELSE IF strike.option_type \notin OptionTypes THEN acc
    ELSE IF ~HasKey(strike, "strike") THEN Raise("KeyError")
    ELSE LET entry == [strike |-> strike.strike,
                       greeks |-> IF HasKey(strike, "greeks") THEN strike.greeks
                                  ELSE None]
         IN IF strike.option_type = "put"
            THEN Return("lists", [call_greeks |-> Append(acc.value.call_greeks, entry),
                                  put_greeks |-> acc.value.put_greeks])
            ELSE Return("lists", [call_greeks |-> acc.value.call_greeks,
                                  put_greeks |-> Append(acc.value.put_greeks, entry)])

\* Faulty variant of greeks_step: elif replaced by if with a fall-through,
\* so a call is appended to both lists.
greeks_step_both(acc, strike) ==
    IF acc.status = "raise" THEN acc
    ELSE IF ~HasKey(strike, "option_type") THEN Raise("KeyError")
    ELSE IF strike.option_type \notin OptionTypes THEN acc
    ELSE IF ~HasKey(strike, "strike") THEN Raise("KeyError")
    ELSE LET entry == [strike |-> strike.strike,
                       greeks |-> IF HasKey(strike, "greeks") THEN strike.greeks
                                  ELSE None]
         IN IF strike.option_type = "call"
            THEN Return("lists", [call_greeks |-> Append(acc.value.call_greeks, entry),
                                  put_greeks |-> Append(acc.value.put_greeks, entry)])
            ELSE Return("lists", [call_greeks |-> acc.value.call_greeks,
                                  put_greeks |-> Append(acc.value.put_greeks, entry)])

\* One pass of the loop of _get_greeks: lists, appended in chain order;
\* strike.get('greeks') is None when the key is missing.
greeks_step(acc, strike) ==
    IF acc.status = "raise" THEN acc
    ELSE IF ~HasKey(strike, "option_type") THEN Raise("KeyError")
    ELSE IF strike.option_type \notin OptionTypes THEN acc
    ELSE IF ~HasKey(strike, "strike") THEN Raise("KeyError")
    ELSE LET entry == [strike |-> strike.strike,
                       greeks |-> IF HasKey(strike, "greeks") THEN strike.greeks
                                  ELSE None]
         IN IF strike.option_type = "call"
            THEN Return("lists", [call_greeks |-> Append(acc.value.call_greeks, entry),
                                  put_greeks |-> acc.value.put_greeks])
            ELSE Return("lists", [call_greeks |-> acc.value.call_greeks,
                                  put_greeks |-> Append(acc.value.put_greeks, entry)])

_get_greeks(options_chain, symbol, expiration_date) ==
    LET option_chain == get_options_chain(options_chain, symbol, expiration_date).data
        loop[i \in 0..Len(option_chain)] ==
            IF i = 0 THEN Return("lists", [call_greeks |-> <<>>, put_greeks |-> <<>>])
            ELSE greeks_step(loop[i - 1], option_chain[i])
        r == loop[Len(option_chain)]
    IN IF r.status = "raise" THEN r
       ELSE Return("dict",
              [description |-> "greeks",
               root_symbol |-> symbol,
               expiration_date |-> expiration_date,
               data |-> [Calls |-> r.value.call_greeks,
                         Puts |-> r.value.put_greeks]])

-----------------------------------------------------------------------------
(* modules/max_pain.py *)

\* Faulty variant of call_cash_value: the negative product is kept.
call_cash_value_unfloored(close, strike, open_interest) ==
    (close - strike) * open_interest * ContractMultiplier

\* Faulty variant of call_cash_value: strike minus close, as for puts.
call_cash_value_reversed(close, strike, open_interest) ==
    IF (strike - close) * open_interest * ContractMultiplier < 0 THEN 0
    ELSE (strike - close) * open_interest * ContractMultiplier

\* The cash value of one call at one hypothetical close, set to 0 when the
\* product is negative.
call_cash_value(close, strike, open_interest) ==
    IF (close - strike) * open_interest * ContractMultiplier < 0 THEN 0
    ELSE (close - strike) * open_interest * ContractMultiplier

\* Faulty variant of put_cash_value: close minus strike, as for calls.
put_cash_value_as_call(close, strike, open_interest) ==
    IF (close - strike) * open_interest * ContractMultiplier < 0 THEN 0
    ELSE (close - strike) * open_interest * ContractMultiplier

\* Faulty variant of put_cash_value: a negative value is turned positive
\* instead of being set to 0.
put_cash_value_abs(close, strike, open_interest) ==
    IF (strike - close) * open_interest * ContractMultiplier < 0
    THEN (close - strike) * open_interest * ContractMultiplier
    ELSE (strike - close) * open_interest * ContractMultiplier

\* Puts: strike minus close.
put_cash_value(close, strike, open_interest) ==
    IF (strike - close) * open_interest * ContractMultiplier < 0 THEN 0
    ELSE (strike - close) * open_interest * ContractMultiplier

\* The inner loop over range(len(call_strikes)) for one hypothetical close:
\* the cash values of the first i entries, summed.
RECURSIVE call_cash_sum(_, _, _)
call_cash_sum(close, calls_data, i) ==
    IF i = 0 THEN 0
    ELSE call_cash_sum(close, calls_data, i - 1)
         + call_cash_value(close, calls_data[i].strike, calls_data[i].open_interest)

RECURSIVE put_cash_sum(_, _, _)
put_cash_sum(close, puts_data, i) ==
    IF i = 0 THEN 0
    ELSE put_cash_sum(close, puts_data, i - 1)
         + put_cash_value(close, puts_data[i].strike, puts_data[i].open_interest)

\* Faulty variant of call_cash_values: the hypothetical closes are the call
\* strikes in the order of the open-interest list, without sorted(set(...)).
call_cash_values_unsorted(calls_data) ==
    [j \in 1..Len(calls_data) |->
        [strike |-> calls_data[j].strike,
         cash |-> call_cash_sum(calls_data[j].strike, calls_data, Len(calls_data))]]

\* call_cash_values: one entry per hypothetical close, ascending.
call_cash_values(calls_data) ==
    LET hypothetical_call_closes ==
            SortedSeq({calls_data[i].strike : i \in 1..Len(calls_data)})
    IN [j \in 1..Len(hypothetical_call_closes) |->
          [strike |-> hypothetical_call_closes[j],
           cash |-> call_cash_sum(hypothetical_call_closes[j], calls_data,
                                  Len(calls_data))]]

put_cash_values(puts_data) ==
    LET hypothetical_put_closes ==
            SortedSeq({puts_data[i].strike : i \in 1..Len(puts_data)})
    IN [j \in 1..Len(hypothetical_put_closes) |->
          [strike |-> hypothetical_put_closes[j],
           cash |-> put_cash_sum(hypothetical_put_closes[j], puts_data,
                                 Len(puts_data))]]

\* Faulty variant of sum_cash_values: the put entry is looked up by equal
\* strike, and counts 0 when the puts have no entry at the call's strike.
sum_cash_values_by_strike(calls, puts) ==
    [i \in 1..Len(calls) |->
        LET same == {j \in 1..Len(puts) : puts[j].strike = calls[i].strike}
        IN [strike |-> calls[i].strike,
            cash |-> calls[i].cash
                     + (IF same = {} THEN 0 ELSE puts[CHOOSE j \in same : TRUE].cash)]]

\* Faulty variant of sum_cash_values: the put cash is left out of the sum.
sum_cash_values_calls_only(calls, puts) ==
    [i \in 1..Len(calls) |-> [strike |-> calls[i].strike, cash |-> calls[i].cash]]

\* sum_cash_values, for a put list at least as long as the call list:
\* entry i pairs call entry i with put entry i.
sum_cash_values(calls, puts) ==
    [i \in 1..Len(calls) |->
        [strike |-> calls[i].strike, cash |-> calls[i].cash + puts[i].cash]]

\* Faulty variant of max_pain: max() in place of min().
max_pain_max(sums) ==
    LET cash == CHOOSE m \in {sums[i].cash : i \in 1..Len(sums)} :
                    \A i \in 1..Len(sums) : m >= sums[i].cash
        first == CHOOSE i \in 1..Len(sums) :
                    /\ sums[i].cash = cash
                    /\ \A j \in 1..(i - 1) : sums[j].cash # cash
    IN [strike |-> sums[first].strike, cash |-> cash]

\* Faulty variant of max_pain: the last entry holding the minimum, not the first.
max_pain_last(sums) ==
    LET cash == CHOOSE m \in {sums[i].cash : i \in 1..Len(sums)} :
                    \A i \in 1..Len(sums) : m <= sums[i].cash
        last == CHOOSE i \in 1..Len(sums) :
                    /\ sums[i].cash = cash
                    /\ \A j \in (i + 1)..Len(sums) : sums[j].cash # cash
    IN [strike |-> sums[last].strike, cash |-> cash]

\* min([i.get('cash') for i in sum_cash_values]) and the strike of the
\* first entry holding it.
max_pain(sums) ==
    LET max_pain_cash_value ==
            CHOOSE m \in {sums[i].cash : i \in 1..Len(sums)} :
                \A i \in 1..Len(sums) : m <= sums[i].cash
        first == CHOOSE i \in 1..Len(sums) :
                    /\ sums[i].cash = max_pain_cash_value
                    /\ \A j \in 1..(i - 1) : sums[j].cash # max_pain_cash_value
    IN [strike |-> sums[first].strike, cash |-> max_pain_cash_value]

\* Whether a Python value is falsy: an empty dict or an empty list.
Falsy(v) == v = <<>>

\* Faulty variant of cash_values_of: a call entry without a put entry at its
\* position is summed with 0 instead of ending in an IndexError.
cash_values_of_padded(open_interest_for_chain, symbol, expiration_date) ==
    IF open_interest_for_chain.status = "raise" THEN open_interest_for_chain
    ELSE IF \/ Falsy(open_interest_for_chain.value)
            \/ ~HasKey(open_interest_for_chain.value, "data")
         THEN Return("list", <<>>)
    ELSE LET data == open_interest_for_chain.value.data
             calls == call_cash_values(data.Calls)
             puts == put_cash_values(data.Puts)
             padded == [i \in 1..Len(calls) |->
                          IF i <= Len(puts) THEN puts[i]
                          ELSE [strike |-> calls[i].strike, cash |-> 0]]
         IN IF Len(calls) = 0 THEN Raise("ValueError")
            ELSE LET sums == sum_cash_values(calls, padded)
                 IN Return("dict",
                      [ticker |-> symbol,
                       expiration_date |-> expiration_date,
                       data |-> [Calls |-> calls, Puts |-> puts, Sums |-> sums,
                                 max_pain |-> max_pain(sums)]])

\* get_cash_values from line 34 on, given what get_open_interest came to.
cash_values_of(open_interest_for_chain, symbol, expiration_date) ==
    IF open_interest_for_chain.status = "raise" THEN open_interest_for_chain
    ELSE IF \/ Falsy(open_interest_for_chain.value)
            \/ ~HasKey(open_interest_for_chain.value, "data")
         THEN Return("list", <<>>)
    ELSE LET data == open_interest_for_chain.value.data
             calls_data == IF HasKey(data, "Calls") THEN data.Calls ELSE <<>>
             puts_data == IF HasKey(data, "Puts") THEN data.Puts ELSE <<>>
             calls == call_cash_values(calls_data)
             puts == put_cash_values(puts_data)
         IN IF Len(calls) > Len(puts) THEN Raise("IndexError")
            ELSE IF Len(calls) = 0 THEN Raise("ValueError")
            ELSE LET sums == sum_cash_values(calls, puts)
                 IN Return("dict",
                      [ticker |-> symbol,
                       expiration_date |-> expiration_date,
                       data |-> [Calls |-> calls, Puts |-> puts, Sums |-> sums,
                                 max_pain |-> max_pain(sums)]])

get_cash_values(options_chain, symbol, expiration_date) ==
    cash_values_of(get_open_interest(options_chain, symbol, expiration_date),
                   symbol, expiration_date)

-----------------------------------------------------------------------------
(* The state machine *)

NoCall ==
    [method |-> "none", options_chain |-> <<>>,
     status |-> "none", type |-> "none", value |-> <<>>]

\* A finished call: the method, the chain it fetched, and its outcome.
Called(method, options_chain, r) ==
    [method |-> method, options_chain |-> options_chain,
     status |-> r.status, type |-> r.type, value |-> r.value]

\* Tradier.__init__ and MaxPain.__init__ for one symbol.
Tradier(symbol) ==
    [api_key |-> "TRADIER_API_KEY",
     options_chain_url |-> "https://api.tradier.com/v1/markets/options/chains",
     quote_url |-> "https://api.tradier.com/v1/markets/quotes",
     symbol |-> symbol]

MaxPain(symbol) == [symbol |-> symbol, tradier |-> Tradier(symbol)]

\* No request answered yet.
NoResponse == [route |-> "none"]

\* The application before any account exists and before any request.
\* No maximum_pain request is being served.
NoRequest == [pc |-> "none"]

WebInit ==
    /\ users = <<>>
    /\ session = 0
    /\ resp = NoResponse
    /\ posts = <<>>
    /\ followers = <<>>
    /\ pending = NoRequest

\* The objects built, nothing fetched, nothing called.
OptionInit ==
    /\ chain = <<>>
    /\ self \in {MaxPain(symbol) : symbol \in Symbols}
    /\ ret = NoCall

Init ==
    /\ feed = GeneralFeed
    /\ OptionInit
    /\ WebInit

InitScenario ==
    /\ feed = ScenarioFeed
    /\ OptionInit
    /\ WebInit

InitPartial ==
    /\ feed = PartialFeed
    /\ OptionInit
    /\ WebInit

\* The provider lists one more contract of the expiration.
ProviderList ==
    /\ ret = NoCall
    /\ Len(chain) < MaxChainLen
    /\ \E c \in feed : chain' = Append(chain, c)
    /\ UNCHANGED <<feed, self, ret>>
    /\ UNCHANGED webVars

GetOpenInterest ==
    /\ ret = NoCall
    /\ \E expiration_date \in ExpirationDates :
          ret' = Called("get_open_interest", chain,
                        get_open_interest(chain, self.tradier.symbol, expiration_date))
    /\ UNCHANGED <<feed, chain, self>>
    /\ UNCHANGED webVars

\* Faulty variant of GetVolume: the loop consumes the chain it walks
\* (options_chain.pop(0)), so the first contract is gone after the call.
GetVolume_consuming ==
    /\ ret = NoCall
    /\ \E expiration_date \in ExpirationDates :
          ret' = Called("_get_volume", chain, _get_volume(chain, self.tradier.symbol, expiration_date))
    /\ chain' = IF chain = <<>> THEN chain ELSE Tail(chain)
    /\ UNCHANGED <<feed, self>>
    /\ UNCHANGED webVars

GetVolume ==
    /\ ret = NoCall
    /\ \E expiration_date \in ExpirationDates :
          ret' = Called("_get_volume", chain, _get_volume(chain, self.tradier.symbol, expiration_date))
    /\ UNCHANGED <<feed, chain, self>>
    /\ UNCHANGED webVars

GetImpliedVolatility ==
    /\ ret = NoCall
    /\ \E expiration_date \in ExpirationDates :
          ret' = Called("_get_implied_volatility", chain,
                        _get_implied_volatility(chain, self.tradier.symbol, expiration_date))
    /\ UNCHANGED <<feed, chain, self>>
    /\ UNCHANGED webVars

GetLastBidAsk ==
    /\ ret = NoCall
    /\ \E expiration_date \in ExpirationDates :
          ret' = Called("_get_last_bid_ask", chain,
                        _get_last_bid_ask(chain, self.tradier.symbol, expiration_date))
    /\ UNCHANGED <<feed, chain, self>>
    /\ UNCHANGED webVars

GetGreeks ==
    /\ ret = NoCall
    /\ \E expiration_date \in ExpirationDates :
          ret' = Called("_get_greeks", chain, _get_greeks(chain, self.tradier.symbol, expiration_date))
    /\ UNCHANGED <<feed, chain, self>>
    /\ UNCHANGED webVars

GetCashValues ==
    /\ ret = NoCall
    /\ \E expiration_date \in ExpirationDates :
          ret' = Called("get_cash_values", chain,
                        get_cash_values(chain, self.symbol, expiration_date))
    /\ UNCHANGED <<feed, chain, self>>
    /\ UNCHANGED webVars

\* The caller has taken the outcome; the next call starts afresh.
Respond ==
    /\ ret # NoCall
    /\ ret' = NoCall
    /\ UNCHANGED <<feed, chain, self>>
    /\ UNCHANGED webVars

Next ==
    \/ ProviderList
    \/ GetOpenInterest
    \/ GetVolume
    \/ GetImpliedVolatility
    \/ GetLastBidAsk
    \/ GetGreeks
    \/ GetCashValues
    \/ Respond

Spec == Init /\ [][Next]_vars

SpecScenario == InitScenario /\ [][Next]_vars

SpecPartial == InitPartial /\ [][Next]_vars

-----------------------------------------------------------------------------
(* The web application: the user table, the login session of the client and
   the routes of the auth blueprint.  A user row keeps the columns the auth
   routes read or write (id, username, email, password_hash); session is the
   id of the logged-in user, 0 for an anonymous client.  CSRF checking is
   off, as in TestConfig. *)

\* What a client may type into the forms.
Usernames == {"", "alex", "chris"}

Emails == {"alex", "alex@gmail.com", "chris@gmail.com"}

Passwords == {"", "password123", "safe-password"}

\* The random salts generate_password_hash may draw.
Salts == {"salt1", "salt2"}

\* wtforms validators.  Email() accepts the well-formed addresses.
DataRequired(data) == data # ""

Email(data) == data \in {"alex@gmail.com", "chris@gmail.com"}

EqualTo(data, other) == data = other

\* Faulty variant of generate_password_hash: the digest leaves the password
\* out.
generate_password_hash_salt_only(password, salt) ==
    [method |-> "scrypt", salt |-> salt, digest |-> <<salt, "">>]

\* werkzeug.security: a salted one-way digest of the password, and its check
\* by hashing the candidate with the stored salt.
generate_password_hash(password, salt) ==
    [method |-> "scrypt", salt |-> salt, digest |-> <<salt, password>>]

check_password_hash(pwhash, password) == pwhash.digest = <<pwhash.salt, password>>

\* User(username=..., email=...) followed by set_password; the id is the
\* table's next primary key.
User(table, username, email, password, salt) ==
    [id |-> Len(table) + 1,
     username |-> username,
     email |-> email,
     password_hash |-> generate_password_hash(password, salt)]

check_password(user, password) == check_password_hash(user.password_hash, password)

\* User.query.filter_by(username=...).first() and filter_by(email=...).first()
filter_by_username(table, username) ==
    LET hits == SelectSeq(table, LAMBDA u : u.username = username)
    IN IF hits = <<>> THEN None ELSE hits[1]

filter_by_email(table, email) ==
    LET hits == SelectSeq(table, LAMBDA u : u.email = email)
    IN IF hits = <<>> THEN None ELSE hits[1]

\* The forms as submitted; a GET carries no form data.
RegistrationData(username, email, password_hash, password_hash2) ==
    [username |-> username, email |-> email,
     password_hash |-> password_hash, password_hash2 |-> password_hash2]

LoginData(username, password) == [username |-> username, password |-> password]

\* RegistrationForm.validate(): the field validators and the two inline
\* uniqueness validators.
RegistrationForm(table, form) ==
    /\ DataRequired(form.username)
    /\ filter_by_username(table, form.username) = None
    /\ DataRequired(form.email)
    /\ Email(form.email)
    /\ filter_by_email(table, form.email) = None
    /\ DataRequired(form.password_hash)
    /\ DataRequired(form.password_hash2)
    /\ EqualTo(form.password_hash2, form.password_hash)

LoginForm(form) == DataRequired(form.username) /\ DataRequired(form.password)

\* FlaskForm.validate_on_submit(): a submitting method and a valid form.
validate_on_submit(method, valid) == method = "POST" /\ valid

\* The two kinds of answer the routes give.
redirect(endpoint) == [status |-> 302, location |-> endpoint, template |-> ""]

render_template(template_name_or_list) ==
    [status |-> 200, location |-> "", template |-> template_name_or_list]

\* The register view: the table after it and its answer.
register(table, user_id, method, form, salt) ==
    IF user_id # 0
    THEN [users |-> table, response |-> redirect("main.index")]
    ELSE IF validate_on_submit(method, RegistrationForm(table, form))
         THEN [users |-> Append(table, User(table, form.username, form.email,
                                            form.password_hash, salt)),
               response |-> redirect("auth.login")]
         ELSE [users |-> table, response |-> render_template("register.html")]

\* Faulty variant of login: a correct password logs the client in as the
\* first row of the table instead of the row that was looked up.
login_first_row(table, user_id, method, form) ==
    IF user_id # 0
    THEN [user_id |-> user_id, response |-> redirect("main.index")]
    ELSE IF validate_on_submit(method, LoginForm(form))
         THEN LET user == filter_by_username(table, form.username)
              IN IF user # None
                 THEN IF check_password(user, form.password)
                      THEN [user_id |-> table[1].id, response |-> redirect("main.index")]
                      ELSE [user_id |-> 0, response |-> redirect("auth.login")]
                 ELSE [user_id |-> 0, response |-> render_template("auth/login.html")]
         ELSE [user_id |-> 0, response |-> render_template("auth/login.html")]

\* The login view: the session after it and its answer.
login(table, user_id, method, form) ==
    IF user_id # 0
    THEN [user_id |-> user_id, response |-> redirect("main.index")]
    ELSE IF validate_on_submit(method, LoginForm(form))
         THEN LET user == filter_by_username(table, form.username)
              IN IF user # None
                 THEN IF check_password(user, form.password)
                      THEN [user_id |-> user.id, response |-> redirect("main.index")]
                      ELSE [user_id |-> 0, response |-> redirect("auth.login")]
                 ELSE [user_id |-> 0, response |-> render_template("auth/login.html")]
         ELSE [user_id |-> 0, response |-> render_template("auth/login.html")]

\* The logout view behind login_required: an anonymous client is sent to the
\* login view, a logged-in one is logged out.
logout(user_id) ==
    IF user_id = 0
    THEN [user_id |-> 0, response |-> redirect("auth.login")]
    ELSE [user_id |-> 0, response |-> redirect("main.index")]

\* The record of a served request: what was asked, by whom, on which table,
\* and the answer.
Answered(route, method, form, user_id, table, response) ==
    [route |-> route, method |-> method, form |-> form, user_id |-> user_id,
     users |-> table, status |-> response.status,
     location |-> response.location, template |-> response.template]

\* A GET of /register or a POST of the form; generate_password_hash draws
\* its salt when the view gets to set_password.
Register ==
    /\ \/ LET r == register(users, session, "GET", RegistrationData("", "", "", ""),
                            "salt1")
          IN /\ users' = r.users
             /\ resp' = Answered("register", "GET", RegistrationData("", "", "", ""),
                                 session, users, r.response)
       \/ \E username \in Usernames, email \in Emails :
          \E password_hash \in Passwords, password_hash2 \in Passwords :
             LET form == RegistrationData(username, email, password_hash,
                                          password_hash2)
                 hashing == session = 0 /\ RegistrationForm(users, form)
             IN \E salt \in IF hashing THEN Salts ELSE {"salt1"} :
                   LET r == register(users, session, "POST", form, salt)
                   IN /\ users' = r.users
                      /\ resp' = Answered("register", "POST", form, session,
                                          users, r.response)
    /\ UNCHANGED <<session, posts, followers, pending>>
    /\ UNCHANGED optionVars

\* A GET of /login or a POST of the form.
Login ==
    /\ \/ LET r == login(users, session, "GET", LoginData("", ""))
          IN /\ session' = r.user_id
             /\ resp' = Answered("login", "GET", LoginData("", ""), session,
                                 users, r.response)
       \/ \E username \in Usernames, password \in Passwords :
             LET form == LoginData(username, password)
                 r == login(users, session, "POST", form)
             IN /\ session' = r.user_id
                /\ resp' = Answered("login", "POST", form, session, users,
                                    r.response)
    /\ UNCHANGED <<users, posts, followers, pending>>
    /\ UNCHANGED optionVars

Logout ==
    /\ LET r == logout(session)
       IN /\ session' = r.user_id
          /\ resp' = Answered("logout", "GET", <<>>, session, users, r.response)
    /\ UNCHANGED <<users, posts, followers, pending>>
    /\ UNCHANGED optionVars

NextAuth ==
    \/ Register
    \/ Login
    \/ Logout

SpecAuth == Init /\ [][NextAuth]_vars

-----------------------------------------------------------------------------
(* The feed blueprint: adding, editing and deleting posts.  A post row keeps
   id, title, content and user_id, the id of its author.  Two users have
   registered before the first request. *)

\* The most post ids the table ever gives out.
MaxPosts == 2

\* What a client may type into the post form.
Titles == {"", "aapl", "MSFT"}

Contents == {"", "buy", "sell"}

PostIds == 1..MaxPosts

\* str.upper() on the titles.
upper(title) == IF title = "aapl" THEN "AAPL" ELSE title

\* The user table after alex and chris have registered.
TwoUsers ==
    LET first == <<User(<<>>, "alex", "alex@gmail.com", "password123", "salt1")>>
    IN Append(first, User(first, "chris", "chris@gmail.com", "safe-password", "salt2"))

InitSocial ==
    /\ feed = GeneralFeed
    /\ OptionInit
    /\ users = TwoUsers
    /\ session = 0
    /\ resp = NoResponse
    /\ posts = <<>>
    /\ followers = <<>>
    /\ pending = NoRequest

PostData(title, content) == [title |-> title, content |-> content]

\* PostForm.validate()
PostForm(form) == DataRequired(form.title) /\ DataRequired(form.content)

\* The primary key the table gives the next row.
next_id(table) ==
    IF table = <<>> THEN 1
    ELSE 1 + CHOOSE m \in {table[i].id : i \in 1..Len(table)} :
                 \A i \in 1..Len(table) : table[i].id <= m

\* Post.query.get(id): the row with the id, or None.
get_post(table, id) ==
    LET hits == SelectSeq(table, LAMBDA p : p.id = id)
    IN IF hits = <<>> THEN None ELSE hits[1]

\* The answer of get_or_404 for a missing row.
not_found == [status |-> 404, location |-> "", template |-> "errors/404.html"]

\* login_required turning an anonymous client away.
unauthorized == redirect("auth.login")

\* The add_post view: the post table after it and its answer.
add_post(table, user_id, form) ==
    IF user_id = 0 THEN [posts |-> table, response |-> unauthorized]
    ELSE IF validate_on_submit("POST", PostForm(form))
         THEN [posts |-> Append(table, [id |-> next_id(table),
                                        title |-> upper(form.title),
                                        content |-> form.content,
                                        user_id |-> user_id]),
               response |-> redirect("stocks.symbol")]
         ELSE [posts |-> table, response |-> redirect("main.index")]

\* The edit_post view: a valid submission is written to the post before the
\* author is looked at; only the form page depends on who asks.
edit_post(table, user_id, id, method, form) ==
    IF user_id = 0 THEN [posts |-> table, response |-> unauthorized]
    ELSE IF get_post(table, id) = None THEN [posts |-> table, response |-> not_found]
    ELSE IF validate_on_submit(method, PostForm(form))
         THEN [posts |-> [i \in 1..Len(table) |->
                            IF table[i].id = id
                            THEN [table[i] EXCEPT !.title = upper(form.title),
                                                  !.content = form.content]
                            ELSE table[i]],
               response |-> redirect("feed.post")]
         ELSE IF user_id = get_post(table, id).user_id
              THEN [posts |-> table, response |-> render_template("feed/edit_post.html")]
              ELSE [posts |-> table, response |-> render_template("feed/feed.html")]

\* The delete_post view.
delete_post(table, user_id, id) ==
    IF user_id = 0 THEN [posts |-> table, response |-> unauthorized]
    ELSE IF get_post(table, id) = None THEN [posts |-> table, response |-> not_found]
    ELSE IF user_id = get_post(table, id).user_id
         THEN [posts |-> SelectSeq(table, LAMBDA p : p.id # id),
               response |-> redirect("feed.feed")]
         ELSE [posts |-> table, response |-> render_template("feed/feed.html")]

\* The record of a served feed request: what was asked, by whom, on which
\* post table, and the answer.
FeedAnswered(route, method, id, form, user_id, table, response) ==
    [route |-> route, method |-> method, id |-> id, form |-> form,
     user_id |-> user_id, posts |-> table, status |-> response.status,
     location |-> response.location, template |-> response.template]

AddPost ==
    /\ next_id(posts) <= MaxPosts
    /\ \E title \in Titles, content \in Contents :
          LET form == PostData(title, content)
              r == add_post(posts, session, form)
          IN /\ posts' = r.posts
             /\ resp' = FeedAnswered("add_post", "POST", 0, form, session, posts,
                                     r.response)
    /\ UNCHANGED <<users, session, followers, pending>>
    /\ UNCHANGED optionVars

\* A GET of the edit page or a POST of the form.
EditPost ==
    /\ \E id \in PostIds :
          \/ LET r == edit_post(posts, session, id, "GET", PostData("", ""))
             IN /\ posts' = r.posts
                /\ resp' = FeedAnswered("edit_post", "GET", id, PostData("", ""),
                                        session, posts, r.response)
          \/ \E title \in Titles, content \in Contents :
                LET form == PostData(title, content)
                    r == edit_post(posts, session, id, "POST", form)
                IN /\ posts' = r.posts
                   /\ resp' = FeedAnswered("edit_post", "POST", id, form, session,
                                           posts, r.response)
    /\ UNCHANGED <<users, session, followers, pending>>
    /\ UNCHANGED optionVars

DeletePost ==
    /\ \E id \in PostIds :
          LET r == delete_post(posts, session, id)
          IN /\ posts' = r.posts
             /\ resp' = FeedAnswered("delete_post", "GET", id, PostData("", ""),
                                     session, posts, r.response)
    /\ UNCHANGED <<users, session, followers, pending>>
    /\ UNCHANGED optionVars

NextFeed ==
    \/ Login
    \/ Logout
    \/ AddPost
    \/ EditPost
    \/ DeletePost

SpecFeed == InitSocial /\ [][NextFeed]_vars

-----------------------------------------------------------------------------
(* The users blueprint: following and unfollowing.  A row of the followers
   table is <<follower_id, following_id>>.  The EmptyForm of the two views
   has no field to fail, so a POST always validates. *)

\* The usernames a follow or unfollow request may name; nobody registered
\* as test.
FollowNames == {"alex", "chris", "test"}

\* User.is_following
is_following(table, self_id, user_id) ==
    \E i \in 1..Len(table) : table[i] = <<self_id, user_id>>

\* Faulty variant of User_follow: the row is added without asking
\* is_following first.
User_follow_unchecked(table, self_id, user_id) ==
    Append(table, <<self_id, user_id>>)

\* User.follow and User.unfollow: the followers table after the call.
User_follow(table, self_id, user_id) ==
    IF ~is_following(table, self_id, user_id)
    THEN Append(table, <<self_id, user_id>>)
    ELSE table

User_unfollow(table, self_id, user_id) ==
    IF is_following(table, self_id, user_id)
    THEN SelectSeq(table, LAMBDA row : row # <<self_id, user_id>>)
    ELSE table

\* EmptyForm.validate()
EmptyForm == TRUE

\* Faulty variant of follow: the view does not ask whether the user named is
\* the one logged in.
follow_anyone(utable, ftable, user_id, username) ==
    IF user_id = 0 THEN [followers |-> ftable, response |-> unauthorized]
    ELSE IF validate_on_submit("POST", EmptyForm)
         THEN LET user == filter_by_username(utable, username)
              IN IF user = None
                 THEN [followers |-> ftable, response |-> redirect("main.index")]
                 ELSE [followers |-> User_follow(ftable, user_id, user.id),
                       response |-> redirect("users.user")]
         ELSE [followers |-> ftable, response |-> redirect("main.index")]

\* The follow view: the followers table after it and its answer.
follow(utable, ftable, user_id, username) ==
    IF user_id = 0 THEN [followers |-> ftable, response |-> unauthorized]
    ELSE IF validate_on_submit("POST", EmptyForm)
         THEN LET user == filter_by_username(utable, username)
              IN IF user = None
                 THEN [followers |-> ftable, response |-> redirect("main.index")]
                 ELSE IF user.id = user_id
                      THEN [followers |-> ftable, response |-> redirect("users.user")]
                      ELSE [followers |-> User_follow(ftable, user_id, user.id),
                            response |-> redirect("users.user")]
         ELSE [followers |-> ftable, response |-> redirect("main.index")]

\* The unfollow view.
unfollow(utable, ftable, user_id, username) ==
    IF user_id = 0 THEN [followers |-> ftable, response |-> unauthorized]
    ELSE IF validate_on_submit("POST", EmptyForm)
         THEN LET user == filter_by_username(utable, username)
              IN IF user = None
                 THEN [followers |-> ftable, response |-> redirect("main.index")]
                 ELSE IF user.id = user_id
                      THEN [followers |-> ftable, response |-> redirect("users.user")]
                      ELSE [followers |-> User_unfollow(ftable, user_id, user.id),
                            response |-> redirect("users.user")]
         ELSE [followers |-> ftable, response |-> redirect("main.index")]

\* The record of a served follow or unfollow request: who asked for whom,
\* on which users and followers tables, and the answer.
FollowAnswered(route, username, user_id, utable, ftable, response) ==
    [route |-> route, method |-> "POST", username |-> username,
     user_id |-> user_id, users |-> utable, followers |-> ftable,
     status |-> response.status, location |-> response.location,
     template |-> response.template]

Follow ==
    /\ \E username \in FollowNames :
          LET r == follow(users, followers, session, username)
          IN /\ followers' = r.followers
             /\ resp' = FollowAnswered("follow", username, session, users,
                                       followers, r.response)
    /\ UNCHANGED <<users, session, posts, pending>>
    /\ UNCHANGED optionVars

Unfollow ==
    /\ \E username \in FollowNames :
          LET r == unfollow(users, followers, session, username)
          IN /\ followers' = r.followers
             /\ resp' = FollowAnswered("unfollow", username, session, users,
                                       followers, r.response)
    /\ UNCHANGED <<users, session, posts, pending>>
    /\ UNCHANGED optionVars

NextFollow ==
    \/ Login
    \/ Logout
    \/ Follow
    \/ Unfollow

SpecFollow == InitSocial /\ [][NextFollow]_vars

-----------------------------------------------------------------------------
(* The maximum_pain route of the options blueprint.  The view calls
   plot_cash_values and then get_cash_values; each of them fetches the chain
   from the provider, so the view is two steps with the provider free to
   list more contracts in between.  The Stock row of the symbol exists and
   the price lookup succeeds. *)

\* plot_cash_values from line 127 on, given what get_cash_values came to:
\* .get on the [] sentinel is an AttributeError, a DataFrame of no rows has
\* no 'strike' column, and the chart carries the two bar traces and the max
\* pain strike in its title.
plot_cash_values_of(cash_values) ==
    IF cash_values.status = "raise" THEN cash_values
    ELSE IF cash_values.type = "list" THEN Raise("AttributeError")
    ELSE LET calls == cash_values.value.data.Calls
             puts == cash_values.value.data.Puts
         IN IF calls = <<>> \/ puts = <<>> THEN Raise("KeyError")
            ELSE Return("str",
                   [title_max_pain |-> cash_values.value.data.max_pain.strike,
                    trace_calls |-> calls,
                    trace_puts |-> puts])

plot_cash_values(options_chain, symbol, expiration_date) ==
    plot_cash_values_of(get_cash_values(options_chain, symbol, expiration_date))

\* An exception that leaves the view: the application answers 500.
internal_error(exception, raised_in, chart_chain, table_chain) ==
    [route |-> "maximum_pain", status |-> 500, exception |-> exception,
     raised_in |-> raised_in, chart_chain |-> chart_chain,
     table_chain |-> table_chain]

\* The rendered page: the chart, the cash values for the table, and the
\* chain each of the two was computed from.
maximum_pain_page(cash_values_chart, cash_values, chart_chain, table_chain) ==
    [route |-> "maximum_pain", status |-> 200,
     template |-> "options/maximum_pain.html",
     cash_values_chart |-> cash_values_chart, cash_values |-> cash_values,
     chart_chain |-> chart_chain, table_chain |-> table_chain]

\* maximum_pain up to and including plot_cash_values, on the chain the
\* provider lists at that moment.
MaximumPainPlot ==
    /\ pending = NoRequest
    /\ ret = NoCall
    /\ \E symbol \in Symbols, expiry_date \in ExpirationDates :
          LET max_pain_ == MaxPain(symbol)
              cash_values_chart == plot_cash_values(chain, max_pain_.symbol, expiry_date)
          IN IF cash_values_chart.status = "raise"
             THEN /\ resp' = internal_error(cash_values_chart.type, "plot_cash_values",
                                            chain, <<>>)
                  /\ pending' = NoRequest
             ELSE /\ pending' = [pc |-> "plotted", symbol |-> symbol,
                                 expiry_date |-> expiry_date,
                                 cash_values_chart |-> cash_values_chart.value,
                                 chain |-> chain]
                  /\ resp' = resp
    /\ UNCHANGED <<users, session, posts, followers>>
    /\ UNCHANGED optionVars

\* The rest of maximum_pain: get_cash_values on the chain the provider lists
\* now, and the page.
MaximumPainTable ==
    /\ pending # NoRequest
    /\ LET cash_values == get_cash_values(chain, pending.symbol, pending.expiry_date)
       IN resp' = IF cash_values.status = "raise"
                  THEN internal_error(cash_values.type, "get_cash_values",
                                      pending.chain, chain)
                  ELSE maximum_pain_page(pending.cash_values_chart, cash_values.value,
                                         pending.chain, chain)
    /\ pending' = NoRequest
    /\ UNCHANGED <<users, session, posts, followers>>
    /\ UNCHANGED optionVars

NextRoute ==
    \/ ProviderList
    \/ MaximumPainPlot
    \/ MaximumPainTable

SpecRoute == Init /\ [][NextRoute]_vars

-----------------------------------------------------------------------------
(* Properties *)

\* get_cash_values has returned its result dictionary.
CashReturned ==
    /\ ret.method = "get_cash_values"
    /\ ret.status = "return"
    /\ ret.type = "dict"

\* get_open_interest has returned.
OpenInterestReturned ==
    /\ ret.method = "get_open_interest"
    /\ ret.status = "return"

\* The per-strike lists get_open_interest builds from the chain the call
\* fetched: the input of the cash computation.
OICalls ==
    LET data == collect(ret.options_chain, "open_interest")
    IN IF data.status = "raise" THEN <<>>
       ELSE items_list(data.value.call_data, "open_interest")
OIPuts ==
    LET data == collect(ret.options_chain, "open_interest")
    IN IF data.status = "raise" THEN <<>>
       ELSE items_list(data.value.put_data, "open_interest")

Range(seq) == {seq[i] : i \in 1..Len(seq)}

Max0(x) == IF x > 0 THEN x ELSE 0

RECURSIVE SumOf(_)
\* The sum of a sequence of integers.
SumOf(seq) == IF seq = <<>> THEN 0 ELSE seq[1] + SumOf(Tail(seq))

\* The indices of Sums that hold the least cash value.
MinimalIndices(sums) ==
    {i \in 1..Len(sums) : \A j \in 1..Len(sums) : sums[i].cash <= sums[j].cash}

\* C1: whenever get_cash_values returns a result, max_pain.cash is the least
\* cash value of Sums and max_pain.strike is the strike of an entry of Sums
\* holding that least value.
C1_MaxPainIsMinimum ==
    CashReturned =>
        LET d == ret.value.data
        IN /\ \A i \in 1..Len(d.Sums) : d.max_pain.cash <= d.Sums[i].cash
           /\ \E i \in 1..Len(d.Sums) :
                 /\ d.Sums[i].strike = d.max_pain.strike
                 /\ d.Sums[i].cash = d.max_pain.cash

\* A result whose least sum is not at the first entry and not shared by all.
C1_Witness ==
    /\ CashReturned
    /\ Len(ret.value.data.Sums) >= 2
    /\ 1 \notin MinimalIndices(ret.value.data.Sums)
    /\ ret.value.data.max_pain.strike = 105

\* C2: when several entries of Sums share the least cash value, max_pain
\* names the strike of the first of them, which is the lowest tied strike.
C2_TieTakesLowestStrike ==
    CashReturned =>
        LET d == ret.value.data
            tied == MinimalIndices(d.Sums)
        IN /\ \E i \in tied :
                 /\ \A j \in tied : i <= j
                 /\ d.max_pain.strike = d.Sums[i].strike
           /\ \A j \in tied : d.max_pain.strike <= d.Sums[j].strike

\* A result where two entries of Sums tie for the least value.
C2_Witness ==
    /\ CashReturned
    /\ Cardinality(MinimalIndices(ret.value.data.Sums)) >= 2
    /\ ret.value.data.max_pain.strike = 100

\* C3: every per-contract payoff, and with it every cash value of Calls,
\* Puts and Sums, is at least 0.
C3_CashNonNegative ==
    CashReturned =>
        LET d == ret.value.data
        IN /\ \A c \in Range(d.Calls), e \in Range(OICalls) :
                 call_cash_value(c.strike, e.strike, e.open_interest) >= 0
           /\ \A c \in Range(d.Puts), e \in Range(OIPuts) :
                 put_cash_value(c.strike, e.strike, e.open_interest) >= 0
           /\ \A c \in Range(d.Calls) \cup Range(d.Puts) \cup Range(d.Sums) :
                 c.cash >= 0

\* A result in which a call lies above a hypothetical close and a put below
\* one, both with open interest, so that the product is negative.
C3_Witness ==
    /\ CashReturned
    /\ \E c \in Range(ret.value.data.Calls), e \in Range(OICalls) :
          (c.strike - e.strike) * e.open_interest < 0
    /\ \E c \in Range(ret.value.data.Puts), e \in Range(OIPuts) :
          (e.strike - c.strike) * e.open_interest < 0

\* C4: every call strike c has a Calls entry, and the entry's cash is the
\* sum over the call entries (k, oi) of max(0, (c - k) * oi * 100).
C4_CallCashFormula ==
    CashReturned =>
        LET d == ret.value.data
            expected(c) ==
                SumOf([i \in 1..Len(OICalls) |->
                         Max0((c - OICalls[i].strike) * OICalls[i].open_interest * 100)])
        IN /\ \A e \in Range(OICalls) : \E x \in Range(d.Calls) : x.strike = e.strike
           /\ \A x \in Range(d.Calls) : x.cash = expected(x.strike)

\* A result with a call entry of positive cash next to one of cash 0.
C4_Witness ==
    /\ CashReturned
    /\ \E x \in Range(ret.value.data.Calls) : x.cash > 0
    /\ \E x \in Range(ret.value.data.Calls) : x.cash = 0
    /\ \E e \in Range(OICalls) : e.strike = 105 /\ e.open_interest > 0

\* C5: every put strike c has a Puts entry, and the entry's cash is the sum
\* over the put entries (k, oi) of max(0, (k - c) * oi * 100).
C5_PutCashFormula ==
    CashReturned =>
        LET d == ret.value.data
            expected(c) ==
                SumOf([i \in 1..Len(OIPuts) |->
                         Max0((OIPuts[i].strike - c) * OIPuts[i].open_interest * 100)])
        IN /\ \A e \in Range(OIPuts) : \E x \in Range(d.Puts) : x.strike = e.strike
           /\ \A x \in Range(d.Puts) : x.cash = expected(x.strike)

\* A result with a put entry of positive cash next to one of cash 0.
C5_Witness ==
    /\ CashReturned
    /\ \E x \in Range(ret.value.data.Puts) : x.cash > 0
    /\ \E x \in Range(ret.value.data.Puts) : x.cash = 0
    /\ \E e \in Range(OIPuts) : e.strike = 100 /\ e.open_interest > 0

\* The open interest of the worked max pain example was the input.
ExampleInput ==
    /\ ret.method = "get_cash_values"
    /\ Range(OICalls) = {[strike |-> 100, open_interest |-> 10],
                         [strike |-> 105, open_interest |-> 5]}
    /\ Range(OIPuts) = {[strike |-> 100, open_interest |-> 8],
                        [strike |-> 105, open_interest |-> 12]}

\* C6: calls (100, 10), (105, 5) and puts (100, 8), (105, 12) give call cash
\* 0 and put cash 6000 at close 100, call cash 5000 and put cash 0 at close
\* 105, sums 6000 and 5000, and max pain strike 105.
C6_WorkedExample ==
    ExampleInput =>
        /\ CashReturned
        /\ ret.value.data.Calls = <<[strike |-> 100, cash |-> 0],
                                    [strike |-> 105, cash |-> 5000]>>
        /\ ret.value.data.Puts = <<[strike |-> 100, cash |-> 6000],
                                   [strike |-> 105, cash |-> 0]>>
        /\ ret.value.data.Sums = <<[strike |-> 100, cash |-> 6000],
                                   [strike |-> 105, cash |-> 5000]>>
        /\ ret.value.data.max_pain.strike = 105

C6_Witness == ExampleInput /\ CashReturned

\* C7: with an empty chain, get_cash_values returns an empty result and
\* raises nothing.
C7_EmptyChainEmptyResult ==
    (ret.method = "get_cash_values" /\ ret.options_chain = <<>>) =>
        (ret.status = "return" /\ Falsy(ret.value))

Extractors == {"get_open_interest", "_get_volume", "_get_implied_volatility",
               "_get_last_bid_ask", "_get_greeks"}

\* What an extractor hands back when it found nothing: {} or a result whose
\* Calls and Puts are empty.
EmptySentinel(r) ==
    /\ r.status = "return"
    /\ \/ Falsy(r.value)
       \/ r.value.data.Calls = <<>> /\ r.value.data.Puts = <<>>

\* C8: with an empty chain, every extractor returns its empty-result
\* sentinel and none raises.
C8_EmptyChainEveryExtractor ==
    (ret.method \in Extractors /\ ret.options_chain = <<>>) => EmptySentinel(ret)

\* C9: when total_call_oi is zero while the chain has puts, get_open_interest
\* does not raise and returns the lists and totals.
C9_ZeroCallOINoRaise ==
    (/\ ret.method = "get_open_interest"
     /\ Len(OIPuts) >= 1
     /\ zip_total(OICalls, Min2(Len(OICalls), Len(OIPuts))) = 0)
    => ret.status = "return"

\* C10: whenever total_call_oi is nonzero, put_call_ratio is total_put_oi
\* divided by total_call_oi of the same result; 300 over 150 is 2.
C10_PutCallRatio ==
    (OpenInterestReturned /\ ret.value.data.total_call_oi # 0) =>
        LET d == ret.value.data
        IN /\ d.put_call_ratio.den > 0
           /\ d.put_call_ratio.num * d.total_call_oi
                 = d.total_put_oi * d.put_call_ratio.den
           /\ (d.total_call_oi = 150 /\ d.total_put_oi = 300)
                 => d.put_call_ratio = [num |-> 2, den |-> 1]

\* The ratio example: 150 call and 300 put open interest.
C10_Witness ==
    /\ OpenInterestReturned
    /\ ret.value.data.total_call_oi = 150
    /\ ret.value.data.total_put_oi = 300

Side(t) == SelectSeq(ret.options_chain, LAMBDA c : c.option_type = t)

\* The position of the last contract of a side with the given strike.
LastAt(side, k) ==
    CHOOSE i \in 1..Len(side) :
        /\ side[i].strike = k
        /\ \A j \in (i + 1)..Len(side) : side[j].strike # k

\* One entry per distinct strike of the side, carrying the side's last value
\* of the field for that strike.
LastWriteWins(list, side, field) ==
    /\ \A i, j \in 1..Len(list) : list[i].strike = list[j].strike => i = j
    /\ {list[i].strike : i \in 1..Len(list)} = {side[i].strike : i \in 1..Len(side)}
    /\ \A i \in 1..Len(list) :
          IF field = "open_interest"
          THEN list[i].open_interest = side[LastAt(side, list[i].strike)].open_interest
          ELSE list[i].volume = side[LastAt(side, list[i].strike)].volume

\* C12: in get_open_interest and in _get_volume each side's list has exactly
\* one entry per distinct strike of that side, and a repeated (strike,
\* option_type) leaves the value of its last occurrence in chain order.
C12_LastWriteWins ==
    /\ OpenInterestReturned =>
          /\ LastWriteWins(ret.value.data.Calls, Side("call"), "open_interest")
          /\ LastWriteWins(ret.value.data.Puts, Side("put"), "open_interest")
    /\ (ret.method = "_get_volume" /\ ret.status = "return") =>
          /\ LastWriteWins(ret.value.data.Calls, Side("call"), "volume")
          /\ LastWriteWins(ret.value.data.Puts, Side("put"), "volume")

\* A volume result for a chain that lists the call at 100 twice, first with
\* volume 1 and then with volume 0.
C12_Witness ==
    /\ ret.method = "_get_volume"
    /\ ret.status = "return"
    /\ \E i, j \in 1..Len(Side("call")) :
          /\ i < j
          /\ Side("call")[i].strike = 100 /\ Side("call")[i].volume = 1
          /\ Side("call")[j].strike = 100 /\ Side("call")[j].volume = 0

StrikeKeyed == {"get_open_interest", "_get_volume", "_get_implied_volatility",
                "_get_last_bid_ask"}

\* A strike-keyed extractor has returned its Calls and Puts lists.
ListsReturned ==
    /\ ret.method \in StrikeKeyed
    /\ ret.status = "return"
    /\ ~Falsy(ret.value)

Strikes(list) == [i \in 1..Len(list) |-> list[i].strike]

Ascending(seq) == \A i, j \in 1..Len(seq) : i < j => seq[i] < seq[j]

NonDecreasing(seq) == \A i, j \in 1..Len(seq) : i < j => seq[i] <= seq[j]

\* The members of a sequence in the order of their first appearance.
FirstAppearances(seq) ==
    LET keep[i \in 0..Len(seq)] ==
            IF i = 0 THEN <<>>
            ELSE IF \E j \in 1..(i - 1) : seq[j] = seq[i] THEN keep[i - 1]
            ELSE Append(keep[i - 1], seq[i])
    IN keep[Len(seq)]

\* C13 as stated: whatever the provider's order, the Calls and Puts lists of
\* every strike-keyed extractor are in ascending strike order.
C13_AscendingWhateverTheOrder ==
    ListsReturned =>
        /\ Ascending(Strikes(ret.value.data.Calls))
        /\ Ascending(Strikes(ret.value.data.Puts))

\* C13 as amended: the lists hold the strikes of their side in the order of
\* first appearance in the provider's chain, hence in ascending order when
\* the provider lists the side in non-decreasing strike order.
C13_FirstAppearanceOrder ==
    ListsReturned =>
        /\ Strikes(ret.value.data.Calls) = FirstAppearances(Strikes(Side("call")))
        /\ Strikes(ret.value.data.Puts) = FirstAppearances(Strikes(Side("put")))
        /\ NonDecreasing(Strikes(Side("call")))
              => Ascending(Strikes(ret.value.data.Calls))
        /\ NonDecreasing(Strikes(Side("put")))
              => Ascending(Strikes(ret.value.data.Puts))

\* The provider listed the call at 105 before the call at 100, and the
\* last/bid/ask list came back in that order.
C13_Witness ==
    /\ ListsReturned
    /\ ret.method = "_get_last_bid_ask"
    /\ Strikes(ret.value.data.Calls) = <<105, 100>>
    /\ Len(Side("call")) >= 3

\* _get_greeks has returned.
GreeksReturned == ret.method = "_get_greeks" /\ ret.status = "return"

\* What _get_greeks keeps of a contract.
GreeksEntry(c) == [strike |-> c.strike, greeks |-> c.greeks]

\* No (strike, option_type) pair occurs twice in the fetched chain.
NoDuplicatePair ==
    \A i, j \in 1..Len(ret.options_chain) :
        (/\ ret.options_chain[i].strike = ret.options_chain[j].strike
         /\ ret.options_chain[i].option_type = ret.options_chain[j].option_type)
        => i = j

\* C14: partitioning puts every contract on the side its option_type names
\* and keeps, within a side, the order the contracts had in the chain: the
\* greeks lists are the chain's calls and the chain's puts in chain order,
\* and so are the strike-keyed lists of a chain without a repeated pair.
C14_PartitionKeepsOrder ==
    /\ GreeksReturned =>
          /\ ret.value.data.Calls =
                [i \in 1..Len(Side("call")) |-> GreeksEntry(Side("call")[i])]
          /\ ret.value.data.Puts =
                [i \in 1..Len(Side("put")) |-> GreeksEntry(Side("put")[i])]
    /\ (ListsReturned /\ NoDuplicatePair) =>
          /\ Strikes(ret.value.data.Calls) = Strikes(Side("call"))
          /\ Strikes(ret.value.data.Puts) = Strikes(Side("put"))

\* A greeks result for a chain whose calls and puts interleave, with the
\* higher call strike listed first.
C14_Witness ==
    /\ GreeksReturned
    /\ Len(ret.options_chain) = 4
    /\ ret.options_chain[1].option_type = "call" /\ ret.options_chain[1].strike = 105
    /\ ret.options_chain[2].option_type = "put"
    /\ ret.options_chain[3].option_type = "call" /\ ret.options_chain[3].strike = 100
    /\ ret.options_chain[4].option_type = "put"

\* How many entries of a list carry the strike.
CountAt(list, k) == Cardinality({i \in 1..Len(list) : list[i].strike = k})

\* C15: for a chain without a repeated (strike, option_type) pair, the two
\* partitions together hold every contract exactly once: each contract has
\* one entry on its own side, and the sides together have as many entries
\* as the chain has contracts.
C15_PartitionLosesNothing ==
    ((GreeksReturned \/ ListsReturned) /\ NoDuplicatePair) =>
        LET d == ret.value.data
        IN /\ Len(d.Calls) + Len(d.Puts) = Len(ret.options_chain)
           /\ \A i \in 1..Len(ret.options_chain) :
                 LET c == ret.options_chain[i]
                 IN IF c.option_type = "call"
                    THEN CountAt(d.Calls, c.strike) = 1
                    ELSE CountAt(d.Puts, c.strike) = 1

\* A greeks result for a chain with a call and a put at each of two strikes.
C15_Witness ==
    /\ GreeksReturned
    /\ NoDuplicatePair
    /\ Len(Side("call")) = 2
    /\ Len(Side("put")) = 2

\* A contract record without option_type or without strike.
Malformed(c) == ~HasKey(c, "option_type") \/ ~HasKey(c, "strike")

ChainMalformed ==
    \E i \in 1..Len(ret.options_chain) : Malformed(ret.options_chain[i])

\* C16 as stated: when a contract of the chain lacks option_type or strike,
\* every extractor fails with an error and none returns a result.
C16_EveryExtractorRaises ==
    (ret.method \in Extractors /\ ChainMalformed) => ret.status = "raise"

\* C16: when a contract of the chain lacks option_type or strike,
\* get_open_interest, _get_volume, _get_last_bid_ask and _get_greeks raise
\* KeyError to the caller, and _get_implied_volatility, which catches every
\* exception, returns {}.
C16_MalformedRaisesExceptIV ==
    (ret.method \in Extractors /\ ChainMalformed) =>
        IF ret.method = "_get_implied_volatility"
        THEN ret.status = "return" /\ ret.type = "dict" /\ ret.value = <<>>
        ELSE ret.status = "raise" /\ ret.type = "KeyError"

\* A volume call on a chain whose first contract is whole and whose second
\* has no option_type.
C16_Witness ==
    /\ ret.method = "_get_volume"
    /\ ret.status = "raise"
    /\ Len(ret.options_chain) >= 2
    /\ ~Malformed(ret.options_chain[1])
    /\ ~HasKey(ret.options_chain[2], "option_type")

\* A contract whose greeks key is absent or holds None.
GreeksMissing(c) == ~HasKey(c, "greeks") \/ c.greeks = None

\* One entry per distinct strike of the side, carrying the mid_iv of the
\* side's last contract at that strike.
MidIVPerStrike(list, side) ==
    /\ \A i, j \in 1..Len(list) : list[i].strike = list[j].strike => i = j
    /\ {list[i].strike : i \in 1..Len(list)} = {side[i].strike : i \in 1..Len(side)}
    /\ \A i \in 1..Len(list) :
          list[i].iv = side[LastAt(side, list[i].strike)].greeks.mid_iv

\* C17: _get_implied_volatility never raises; when a contract of the chain
\* has no greeks it returns {}; when every contract is well-formed and has
\* greeks it returns the lists, each entry holding the mid_iv of its strike.
C17_IVSentinelOrMidIV ==
    ret.method = "_get_implied_volatility" =>
        /\ ret.status = "return"
        /\ (\E i \in 1..Len(ret.options_chain) : GreeksMissing(ret.options_chain[i]))
              => (ret.type = "dict" /\ ret.value = <<>>)
        /\ (\A i \in 1..Len(ret.options_chain) :
                ~Malformed(ret.options_chain[i]) /\ ~GreeksMissing(ret.options_chain[i]))
              => /\ ~Falsy(ret.value)
                 /\ MidIVPerStrike(ret.value.data.Calls, Side("call"))
                 /\ MidIVPerStrike(ret.value.data.Puts, Side("put"))

\* An implied-volatility call that returned {} for a chain whose second
\* contract has None for greeks, its first being whole.
C17_Witness ==
    /\ ret.method = "_get_implied_volatility"
    /\ ret.status = "return"
    /\ ret.value = <<>>
    /\ Len(ret.options_chain) = 2
    /\ ~Malformed(ret.options_chain[1]) /\ ~GreeksMissing(ret.options_chain[1])
    /\ ~Malformed(ret.options_chain[2])
    /\ HasKey(ret.options_chain[2], "greeks") /\ ret.options_chain[2].greeks = None

\* An implied-volatility call that returned the lists for a chain of whole
\* contracts, with mid_iv 30 on the put at 100.
C17_WitnessLists ==
    /\ ret.method = "_get_implied_volatility"
    /\ ret.status = "return"
    /\ ~Falsy(ret.value)
    /\ Len(ret.value.data.Puts) = 1
    /\ ret.value.data.Puts[1].iv = 30
    /\ Len(ret.value.data.Calls) = 1

\* A step that calls an extractor or the max-pain computation.
CallStep == ret = NoCall /\ ret' # NoCall

\* C19: a call of any extractor or of the max-pain computation leaves the
\* chain (and so every contract record in it) and the fields of the
\* MaxPain object and of its Tradier object as they were, and the chain
\* the call read is the chain that is there after it.
C19_CallsChangeNothing ==
    [][CallStep => /\ chain' = chain
                   /\ self' = self
                   /\ ret'.options_chain = chain']_vars

\* A max-pain computation has returned for a chain of three contracts, and
\* the chain and the object are still what the call was given.
C19_Witness ==
    /\ ret.method = "get_cash_values"
    /\ ret.status = "return"
    /\ Len(chain) = 3
    /\ chain = ret.options_chain
    /\ self = MaxPain("SPY")

\* A POST to /register has been answered.
RegisterPosted == resp.route = "register" /\ resp.method = "POST"

\* The submitted username and email are in no row of the table the request
\* found, and the two passwords are the same.
NewNamesMatchingPasswords ==
    /\ \A i \in 1..Len(resp.users) :
          /\ resp.users[i].username # resp.form.username
          /\ resp.users[i].email # resp.form.email
    /\ resp.form.password_hash2 = resp.form.password_hash

\* The table is the one the request found plus one row, the last, which
\* carries the submitted username and email and a hash that verifies the
\* submitted password; the answer is a redirect.
OneUserAdded ==
    /\ Len(users) = Len(resp.users) + 1
    /\ SubSeq(users, 1, Len(resp.users)) = resp.users
    /\ users[Len(users)].username = resp.form.username
    /\ users[Len(users)].email = resp.form.email
    /\ check_password(users[Len(users)], resp.form.password_hash)
    /\ resp.status = 302

\* C20 as stated: a registration request with a username and an email not
\* yet in the database and two matching passwords adds exactly one user and
\* is answered with a redirect.
C20_RegistrationAddsUser ==
    (RegisterPosted /\ NewNamesMatchingPasswords) => OneUserAdded

\* C20: a registration request by a client that is not logged in, with a
\* non-empty username and a well-formed email address neither of which is in
\* the database, and two matching non-empty passwords, adds exactly one user
\* carrying that username and email whose stored hash verifies the password,
\* changes no other row, and is answered with a redirect (302) to the login
\* view.
C20_AnonymousValidRegistrationAddsUser ==
    (/\ RegisterPosted
     /\ NewNamesMatchingPasswords
     /\ resp.user_id = 0
     /\ resp.form.username # ""
     /\ Email(resp.form.email)
     /\ resp.form.password_hash # "")
    => (OneUserAdded /\ resp.location = "auth.login")

\* A second user has just registered: the table held one row and holds two.
C20_Witness ==
    /\ RegisterPosted
    /\ NewNamesMatchingPasswords
    /\ resp.user_id = 0
    /\ Len(resp.users) = 1
    /\ Len(users) = 2
    /\ resp.status = 302

\* A POST to /login by a client that was not logged in has been answered.
AnonymousLoginPosted ==
    resp.route = "login" /\ resp.method = "POST" /\ resp.user_id = 0

\* The rows of the table the request found that carry the submitted username
\* and whose hash verifies the submitted password.
MatchingUsers ==
    {i \in 1..Len(resp.users) :
        /\ resp.users[i].username = resp.form.username
        /\ check_password(resp.users[i], resp.form.password)}

\* C21: a login request by a client that is not logged in, with the username
\* of an existing user and that user's password, leaves the session logged
\* in as that user, is answered with a redirect (302), and leaves the user
\* table, password hashes included, as it was.
C21_LoginAuthenticates ==
    (AnonymousLoginPosted /\ MatchingUsers # {}) =>
        /\ \A i \in MatchingUsers : session = resp.users[i].id
        /\ resp.status = 302
        /\ users = resp.users

\* The second of two registered users has just logged in.
C21_Witness ==
    /\ AnonymousLoginPosted
    /\ Len(resp.users) = 2
    /\ 2 \in MatchingUsers
    /\ session = 2

C23_SidesAscendingDistinct ==
    CashReturned =>
        LET d == ret.value.data
        IN /\ Ascending(Strikes(d.Calls))
           /\ Ascending(Strikes(d.Puts))
           /\ Range(Strikes(d.Calls)) = Range(Strikes(OICalls))
           /\ Range(Strikes(d.Puts)) = Range(Strikes(OIPuts))

\* A result for an open-interest input that lists the calls with the higher
\* strike first and the puts with the lower strike first.
C23_Witness ==
    /\ CashReturned
    /\ Strikes(OICalls) = <<105, 100>>
    /\ Strikes(OIPuts) = <<100, 105>>
    /\ Strikes(ret.value.data.Calls) = <<100, 105>>

\* A result whose sides differ in their strikes: one call entry, two put
\* entries.
C23_WitnessSidesDiffer ==
    /\ CashReturned
    /\ Strikes(ret.value.data.Calls) = <<105>>
    /\ Strikes(ret.value.data.Puts) = <<100, 105>>
    /\ Strikes(OIPuts) = <<105, 100>>

\* A maximum_pain request has been answered.
MaximumPainAnswered == resp.route = "maximum_pain"

\* The request found no contracts for the expiration when it drew the chart:
\* the case get_cash_values keeps its [] sentinel for.
NoDataForChart == MaximumPainAnswered /\ resp.chart_chain = <<>>

\* C24: when there is no data, so that get_cash_values is to hand back its
\* empty-result sentinel, plot_cash_values and the maximum_pain route do not
\* raise: the request is answered with the page.
C24_CallersHandleNoData == NoDataForChart => resp.status = 200

\* get_cash_values was called and its get_open_interest handed back the
\* open-interest data.
CashCalledOnOpenInterest ==
    /\ ret.method = "get_cash_values"
    /\ \A expiration_date \in ExpirationDates :
          get_open_interest(ret.options_chain, self.symbol, expiration_date).status
             = "return"

C25_WitnessMorePuts ==
    /\ CashReturned
    /\ Len(ret.value.data.Calls) = 1
    /\ Len(ret.value.data.Puts) = 2
    /\ ret.value.data.Puts[2].strike = ret.value.data.Calls[1].strike
    /\ ret.value.data.Puts[1].cash > 0
    /\ ret.value.data.Sums[1].cash = ret.value.data.Puts[1].cash

\* The cash values of a list, in list order.
Cash(list) == [i \in 1..Len(list) |-> list[i].cash]

NonIncreasing(seq) == \A i, j \in 1..Len(seq) : i < j => seq[i] >= seq[j]

\* The open interest of every contract of the fetched chain is not negative.
OpenInterestNonNegative ==
    \A i \in 1..Len(ret.options_chain) : ret.options_chain[i].open_interest >= 0

\* C26: with non-negative open interest, the cash of Calls does not decrease
\* as the strike rises and is 0 at the lowest call strike, and the cash of
\* Puts does not increase as the strike rises and is 0 at the highest put
\* strike.
C26_CashMonotone ==
    (CashReturned /\ OpenInterestNonNegative) =>
        LET d == ret.value.data
        IN /\ Ascending(Strikes(d.Calls))
           /\ Ascending(Strikes(d.Puts))
           /\ NonDecreasing(Cash(d.Calls))
           /\ d.Calls[1].cash = 0
           /\ NonIncreasing(Cash(d.Puts))
           /\ d.Puts[Len(d.Puts)].cash = 0

\* A result whose call cash rises and whose put cash falls between the two
\* strikes.
C26_Witness ==
    /\ CashReturned
    /\ OpenInterestNonNegative
    /\ Cash(ret.value.data.Calls) = <<0, 500>>
    /\ Cash(ret.value.data.Puts) = <<500, 0>>

\* A valid edit submission by a logged-in user for a post of the table has
\* been answered.
ValidEditPosted ==
    /\ resp.route = "edit_post"
    /\ resp.method = "POST"
    /\ resp.user_id # 0
    /\ get_post(resp.posts, resp.id) # None
    /\ PostForm(resp.form)

\* C27: an edit_post request changes the post table only when the logged-in
\* user is the author of the post; a valid submission by another logged-in
\* user leaves the post as it was.
C27_OnlyAuthorEdits ==
    /\ (resp.route = "edit_post" /\ posts # resp.posts)
          => resp.user_id = get_post(resp.posts, resp.id).user_id
    /\ (ValidEditPosted /\ resp.user_id # get_post(resp.posts, resp.id).user_id)
          => get_post(posts, resp.id) = get_post(resp.posts, resp.id)

\* A follow or unfollow request by a logged-in user has been answered.
FollowRequested ==
    resp.route \in {"follow", "unfollow"} /\ resp.user_id # 0

\* The id of the user the request named, 0 when there is no such user.
NamedId ==
    LET user == filter_by_username(resp.users, resp.username)
    IN IF user = None THEN 0 ELSE user.id

\* C28: no row of the followers table has a user following themselves, and a
\* follow or unfollow request that names the requester is answered with a
\* redirect and leaves the followers table as it was.
C28_NoSelfFollow ==
    /\ \A i \in 1..Len(followers) : followers[i][1] # followers[i][2]
    /\ (FollowRequested /\ NamedId = resp.user_id) =>
          /\ followers = resp.followers
          /\ resp.status = 302
          /\ resp.location = "users.user"

\* chris, who follows alex, has asked to follow chris.
C28_Witness ==
    /\ resp.route = "follow"
    /\ resp.user_id = 2
    /\ NamedId = 2
    /\ followers = <<<<2, 1>>>>

\* How many rows of a followers table are the pair.
Rows(table, pair) == Cardinality({i \in 1..Len(table) : table[i] = pair})

\* The rows of a followers table other than the pair, in table order.
OtherRows(table, pair) == SelectSeq(table, LAMBDA row : row # pair)

\* The request got to call User.follow or User.unfollow: the user named
\* exists and is not the requester.
MethodCalled == FollowRequested /\ NamedId # 0 /\ NamedId # resp.user_id

\* C29: no pair is in the followers table more than once; after
\* a.follow(u) the pair (a, u) is there once and after a.unfollow(u) it is
\* not there; following an already-followed user and unfollowing a
\* not-followed user leave the table as it was; no call touches another
\* pair; and the table changes in no step other than such a call.
C29_FollowIdempotent ==
    /\ [](/\ \A i, j \in 1..Len(followers) : followers[i] = followers[j] => i = j
          /\ MethodCalled =>
                LET pair == <<resp.user_id, NamedId>>
                IN /\ OtherRows(followers, pair) = OtherRows(resp.followers, pair)
                   /\ Rows(followers, pair) = IF resp.route = "follow" THEN 1 ELSE 0
                   /\ Rows(resp.followers, pair) = Rows(followers, pair)
                         => followers = resp.followers)
    /\ [][followers' # followers => resp'.route \in {"follow", "unfollow"}]_vars

\* alex, who followed chris already, has asked to follow chris again.
C29_Witness ==
    /\ resp.route = "follow"
    /\ MethodCalled
    /\ resp.user_id = 1
    /\ NamedId = 2
    /\ resp.followers = <<<<2, 1>>, <<1, 2>>>>
    /\ followers = resp.followers

\* chris, who did not follow alex, has asked to unfollow alex.
C29_WitnessUnfollow ==
    /\ resp.route = "unfollow"
    /\ MethodCalled
    /\ resp.user_id = 2
    /\ NamedId = 1
    /\ resp.followers = <<<<1, 2>>>>
    /\ followers = resp.followers

\* C30: in an answered maximum_pain request the chart and the table come
\* from one chain snapshot, so the max pain strike in the chart's title is
\* the max_pain strike of the cash values handed to the table, whatever the
\* provider did while the request was served.
C30_ChartMatchesTable ==
    (MaximumPainAnswered /\ resp.status = 200) =>
        resp.cash_values_chart.title_max_pain = resp.cash_values.data.max_pain.strike

====
